---- MODULE Spec2Model ----
(***************************************************************************)
(* Model of timesheet_entry/timesheet_tool.py: LogTimeToTempoTool._run and *)
(* the methods it calls (resolve_dates, get_account_id, log_manual,        *)
(* log_auto_for_date, post_worklog).                                       *)
(*                                                                         *)
(* Strings the code inspects character by character (date_range) are       *)
(* sequences of Unicode code points.  Dates are proleptic Gregorian        *)
(* ordinals (datetime.toordinal) and are rendered by strftime as           *)
(* <<year, month, day>>.  Times of day are <<hour, minute, second>>.       *)
(* Floats are IEEE-754 doubles: [m |-> 53 mantissa bits, most significant  *)
(* first, e |-> the binary exponent of the last mantissa bit].             *)
(***************************************************************************)
EXTENDS Integers, Sequences, FiniteSets, TLC

VARIABLES
    today,          \* datetime.today() of the run, as an ordinal
    time_seconds,   \* _run argument
    issue_key,      \* _run argument ("MGAP-X" selects automatic mode)
    work_date,      \* _run argument, a character sequence (<<>>: None)
    date_range,     \* _run argument, a character sequence (<<>>: None)
    work_start,     \* _run argument, <<h, m, s>>
    pc,             \* position of _run
    dates_to_log,   \* local of _run
    account_id,     \* local of _run
    results,        \* local of _run: the per-date lines appended so far
    date_idx,       \* 1-based position of the for loop over dates_to_log
    issue_id,       \* local of log_manual
    issues,         \* local of log_auto_for_date
    total_seconds,  \* local of log_auto_for_date
    base_seconds,   \* local of log_auto_for_date
    remaining_seconds, \* local of log_auto_for_date
    item_idx,       \* 0-based position of the for loop over issues
    auto_results,   \* local results of log_auto_for_date
    calls,          \* history: the remote calls issued, with their responses
    failures,       \* history: non-success responses answered so far
    ret             \* the value _run returned

vars == <<today, time_seconds, issue_key, work_date, date_range, work_start,
          pc, dates_to_log, account_id, results, date_idx, issue_id, issues,
          total_seconds, base_seconds, remaining_seconds,
          item_idx, auto_results, calls, failures, ret>>

(***************************************************************************)
(* Bounds of the model.                                                    *)
(***************************************************************************)
\* Longest list of in-progress issues a search response carries.
MaxItems == 2
\* Most non-success (business failure) responses the remote side gives in a run.
MaxFailures == 1

(***************************************************************************)
(* Character strings.  A character is its Unicode code point and a string  *)
(* is a sequence of code points; Str writes one from ASCII letters,        *)
(* spaces and underscores.  The tables are those of Unicode 14.0, which    *)
(* CPython 3.11 uses for str.lower() and str.strip().                      *)
(***************************************************************************)
\* the ASCII letters, for writing string literals
AsciiUpper == <<"A","B","C","D","E","F","G","H","I","J","K","L","M",
                "N","O","P","Q","R","S","T","U","V","W","X","Y","Z">>
AsciiLower == <<"a","b","c","d","e","f","g","h","i","j","k","l","m",
                "n","o","p","q","r","s","t","u","v","w","x","y","z">>

\* ord() of an ASCII letter, of the space and of the underscore
Ord(ch) ==
    IF ch = " " THEN 32
    ELSE IF ch = "_" THEN 95
    ELSE IF \E k \in 1..26 : AsciiUpper[k] = ch
    THEN 64 + (CHOOSE k \in 1..26 : AsciiUpper[k] = ch)
    ELSE 96 + (CHOOSE k \in 1..26 : AsciiLower[k] = ch)

\* the string of the given characters
Str(chars) == [k \in 1..Len(chars) |-> Ord(chars[k])]

\* the characters str.strip() removes (str.isspace)
Whitespace ==
    { 9, 10, 11, 12, 13, 28, 29, 30, 31, 32, 133, 160, 5760, 8192, 8193,
      8194, 8195, 8196, 8197, 8198, 8199, 8200, 8201, 8202, 8232, 8233, 8239,
      8287, 12288 }

\* the characters str.lower() replaces by one other character, as
\* <<first, last, step, lower of first>>: first, first + step, ..., last are
\* lowered to lower of first, lower of first + step, ...
LowerRules ==
    { <<65, 90, 1, 97>>, <<192, 214, 1, 224>>, <<216, 222, 1, 248>>,
      <<256, 302, 2, 257>>, <<306, 310, 2, 307>>, <<313, 327, 2, 314>>,
      <<330, 374, 2, 331>>, <<376, 376, 1, 255>>, <<377, 381, 2, 378>>,
      <<385, 385, 1, 595>>, <<386, 388, 2, 387>>, <<390, 390, 1, 596>>,
      <<391, 391, 1, 392>>, <<393, 394, 1, 598>>, <<395, 395, 1, 396>>,
      <<398, 398, 1, 477>>, <<399, 399, 1, 601>>, <<400, 400, 1, 603>>,
      <<401, 401, 1, 402>>, <<403, 403, 1, 608>>, <<404, 404, 1, 611>>,
      <<406, 406, 1, 617>>, <<407, 407, 1, 616>>, <<408, 408, 1, 409>>,
      <<412, 412, 1, 623>>, <<413, 413, 1, 626>>, <<415, 415, 1, 629>>,
      <<416, 420, 2, 417>>, <<422, 422, 1, 640>>, <<423, 423, 1, 424>>,
      <<425, 425, 1, 643>>, <<428, 428, 1, 429>>, <<430, 430, 1, 648>>,
      <<431, 431, 1, 432>>, <<433, 434, 1, 650>>, <<435, 437, 2, 436>>,
      <<439, 439, 1, 658>>, <<440, 440, 1, 441>>, <<444, 444, 1, 445>>,
      <<452, 452, 1, 454>>, <<453, 453, 1, 454>>, <<455, 455, 1, 457>>,
      <<456, 456, 1, 457>>, <<458, 458, 1, 460>>, <<459, 475, 2, 460>>,
      <<478, 494, 2, 479>>, <<497, 497, 1, 499>>, <<498, 500, 2, 499>>,
      <<502, 502, 1, 405>>, <<503, 503, 1, 447>>, <<504, 542, 2, 505>>,
      <<544, 544, 1, 414>>, <<546, 562, 2, 547>>, <<570, 570, 1, 11365>>,
      <<571, 571, 1, 572>>, <<573, 573, 1, 410>>, <<574, 574, 1, 11366>>,
      <<577, 577, 1, 578>>, <<579, 579, 1, 384>>, <<580, 580, 1, 649>>,
      <<581, 581, 1, 652>>, <<582, 590, 2, 583>>, <<880, 882, 2, 881>>,
      <<886, 886, 1, 887>>, <<895, 895, 1, 1011>>, <<902, 902, 1, 940>>,
      <<904, 906, 1, 941>>, <<908, 908, 1, 972>>, <<910, 911, 1, 973>>,
      <<913, 929, 1, 945>>, <<931, 939, 1, 963>>, <<975, 975, 1, 983>>,
      <<984, 1006, 2, 985>>, <<1012, 1012, 1, 952>>, <<1015, 1015, 1, 1016>>,
      <<1017, 1017, 1, 1010>>, <<1018, 1018, 1, 1019>>,
      <<1021, 1023, 1, 891>>, <<1024, 1039, 1, 1104>>,
      <<1040, 1071, 1, 1072>>, <<1120, 1152, 2, 1121>>,
      <<1162, 1214, 2, 1163>>, <<1216, 1216, 1, 1231>>,
      <<1217, 1229, 2, 1218>>, <<1232, 1326, 2, 1233>>,
      <<1329, 1366, 1, 1377>>, <<4256, 4293, 1, 11520>>,
      <<4295, 4295, 1, 11559>>, <<4301, 4301, 1, 11565>>,
      <<5024, 5103, 1, 43888>>, <<5104, 5109, 1, 5112>>,
      <<7312, 7354, 1, 4304>>, <<7357, 7359, 1, 4349>>,
      <<7680, 7828, 2, 7681>>, <<7838, 7838, 1, 223>>,
      <<7840, 7934, 2, 7841>>, <<7944, 7951, 1, 7936>>,
      <<7960, 7965, 1, 7952>>, <<7976, 7983, 1, 7968>>,
      <<7992, 7999, 1, 7984>>, <<8008, 8013, 1, 8000>>,
      <<8025, 8031, 2, 8017>>, <<8040, 8047, 1, 8032>>,
      <<8072, 8079, 1, 8064>>, <<8088, 8095, 1, 8080>>,
      <<8104, 8111, 1, 8096>>, <<8120, 8121, 1, 8112>>,
      <<8122, 8123, 1, 8048>>, <<8124, 8124, 1, 8115>>,
      <<8136, 8139, 1, 8050>>, <<8140, 8140, 1, 8131>>,
      <<8152, 8153, 1, 8144>>, <<8154, 8155, 1, 8054>>,
      <<8168, 8169, 1, 8160>>, <<8170, 8171, 1, 8058>>,
      <<8172, 8172, 1, 8165>>, <<8184, 8185, 1, 8056>>,
      <<8186, 8187, 1, 8060>>, <<8188, 8188, 1, 8179>>,
      <<8486, 8486, 1, 969>>, <<8490, 8490, 1, 107>>, <<8491, 8491, 1, 229>>,
      <<8498, 8498, 1, 8526>>, <<8544, 8559, 1, 8560>>,
      <<8579, 8579, 1, 8580>>, <<9398, 9423, 1, 9424>>,
      <<11264, 11311, 1, 11312>>, <<11360, 11360, 1, 11361>>,
      <<11362, 11362, 1, 619>>, <<11363, 11363, 1, 7549>>,
      <<11364, 11364, 1, 637>>, <<11367, 11371, 2, 11368>>,
      <<11373, 11373, 1, 593>>, <<11374, 11374, 1, 625>>,
      <<11375, 11375, 1, 592>>, <<11376, 11376, 1, 594>>,
      <<11378, 11378, 1, 11379>>, <<11381, 11381, 1, 11382>>,
      <<11390, 11391, 1, 575>>, <<11392, 11490, 2, 11393>>,
      <<11499, 11501, 2, 11500>>, <<11506, 11506, 1, 11507>>,
      <<42560, 42604, 2, 42561>>, <<42624, 42650, 2, 42625>>,
      <<42786, 42798, 2, 42787>>, <<42802, 42862, 2, 42803>>,
      <<42873, 42875, 2, 42874>>, <<42877, 42877, 1, 7545>>,
      <<42878, 42886, 2, 42879>>, <<42891, 42891, 1, 42892>>,
      <<42893, 42893, 1, 613>>, <<42896, 42898, 2, 42897>>,
      <<42902, 42920, 2, 42903>>, <<42922, 42922, 1, 614>>,
      <<42923, 42923, 1, 604>>, <<42924, 42924, 1, 609>>,
      <<42925, 42925, 1, 620>>, <<42926, 42926, 1, 618>>,
      <<42928, 42928, 1, 670>>, <<42929, 42929, 1, 647>>,
      <<42930, 42930, 1, 669>>, <<42931, 42931, 1, 43859>>,
      <<42932, 42946, 2, 42933>>, <<42948, 42948, 1, 42900>>,
      <<42949, 42949, 1, 642>>, <<42950, 42950, 1, 7566>>,
      <<42951, 42953, 2, 42952>>, <<42960, 42960, 1, 42961>>,
      <<42966, 42968, 2, 42967>>, <<42997, 42997, 1, 42998>>,
      <<65313, 65338, 1, 65345>>, <<66560, 66599, 1, 66600>>,
      <<66736, 66771, 1, 66776>>, <<66928, 66938, 1, 66967>>,
      <<66940, 66954, 1, 66979>>, <<66956, 66962, 1, 66995>>,
      <<66964, 66965, 1, 67003>>, <<68736, 68786, 1, 68800>>,
      <<71840, 71871, 1, 71872>>, <<93760, 93791, 1, 93792>>,
      <<125184, 125217, 1, 125218>> }

\* the case-ignorable characters, as <<first, last>>: str.lower() skips them
\* when it looks for the cased letters around a capital sigma
CaseIgnorableRanges ==
    { <<39, 39>>, <<46, 46>>, <<58, 58>>, <<94, 94>>, <<96, 96>>,
      <<168, 168>>, <<173, 173>>, <<175, 175>>, <<180, 180>>, <<183, 184>>,
      <<688, 879>>, <<884, 885>>, <<890, 890>>, <<900, 901>>, <<903, 903>>,
      <<1155, 1161>>, <<1369, 1369>>, <<1375, 1375>>, <<1425, 1469>>,
      <<1471, 1471>>, <<1473, 1474>>, <<1476, 1477>>, <<1479, 1479>>,
      <<1524, 1524>>, <<1536, 1541>>, <<1552, 1562>>, <<1564, 1564>>,
      <<1600, 1600>>, <<1611, 1631>>, <<1648, 1648>>, <<1750, 1757>>,
      <<1759, 1768>>, <<1770, 1773>>, <<1807, 1807>>, <<1809, 1809>>,
      <<1840, 1866>>, <<1958, 1968>>, <<2027, 2037>>, <<2042, 2042>>,
      <<2045, 2045>>, <<2070, 2093>>, <<2137, 2139>>, <<2184, 2184>>,
      <<2192, 2193>>, <<2200, 2207>>, <<2249, 2306>>, <<2362, 2362>>,
      <<2364, 2364>>, <<2369, 2376>>, <<2381, 2381>>, <<2385, 2391>>,
      <<2402, 2403>>, <<2417, 2417>>, <<2433, 2433>>, <<2492, 2492>>,
      <<2497, 2500>>, <<2509, 2509>>, <<2530, 2531>>, <<2558, 2558>>,
      <<2561, 2562>>, <<2620, 2620>>, <<2625, 2626>>, <<2631, 2632>>,
      <<2635, 2637>>, <<2641, 2641>>, <<2672, 2673>>, <<2677, 2677>>,
      <<2689, 2690>>, <<2748, 2748>>, <<2753, 2757>>, <<2759, 2760>>,
      <<2765, 2765>>, <<2786, 2787>>, <<2810, 2815>>, <<2817, 2817>>,
      <<2876, 2876>>, <<2879, 2879>>, <<2881, 2884>>, <<2893, 2893>>,
      <<2901, 2902>>, <<2914, 2915>>, <<2946, 2946>>, <<3008, 3008>>,
      <<3021, 3021>>, <<3072, 3072>>, <<3076, 3076>>, <<3132, 3132>>,
      <<3134, 3136>>, <<3142, 3144>>, <<3146, 3149>>, <<3157, 3158>>,
      <<3170, 3171>>, <<3201, 3201>>, <<3260, 3260>>, <<3263, 3263>>,
      <<3270, 3270>>, <<3276, 3277>>, <<3298, 3299>>, <<3328, 3329>>,
      <<3387, 3388>>, <<3393, 3396>>, <<3405, 3405>>, <<3426, 3427>>,
      <<3457, 3457>>, <<3530, 3530>>, <<3538, 3540>>, <<3542, 3542>>,
      <<3633, 3633>>, <<3636, 3642>>, <<3654, 3662>>, <<3761, 3761>>,
      <<3764, 3772>>, <<3782, 3782>>, <<3784, 3789>>, <<3864, 3865>>,
      <<3893, 3893>>, <<3895, 3895>>, <<3897, 3897>>, <<3953, 3966>>,
      <<3968, 3972>>, <<3974, 3975>>, <<3981, 3991>>, <<3993, 4028>>,
      <<4038, 4038>>, <<4141, 4144>>, <<4146, 4151>>, <<4153, 4154>>,
      <<4157, 4158>>, <<4184, 4185>>, <<4190, 4192>>, <<4209, 4212>>,
      <<4226, 4226>>, <<4229, 4230>>, <<4237, 4237>>, <<4253, 4253>>,
      <<4348, 4348>>, <<4957, 4959>>, <<5906, 5908>>, <<5938, 5939>>,
      <<5970, 5971>>, <<6002, 6003>>, <<6068, 6069>>, <<6071, 6077>>,
      <<6086, 6086>>, <<6089, 6099>>, <<6103, 6103>>, <<6109, 6109>>,
      <<6155, 6159>>, <<6211, 6211>>, <<6277, 6278>>, <<6313, 6313>>,
      <<6432, 6434>>, <<6439, 6440>>, <<6450, 6450>>, <<6457, 6459>>,
      <<6679, 6680>>, <<6683, 6683>>, <<6742, 6742>>, <<6744, 6750>>,
      <<6752, 6752>>, <<6754, 6754>>, <<6757, 6764>>, <<6771, 6780>>,
      <<6783, 6783>>, <<6823, 6823>>, <<6832, 6862>>, <<6912, 6915>>,
      <<6964, 6964>>, <<6966, 6970>>, <<6972, 6972>>, <<6978, 6978>>,
      <<7019, 7027>>, <<7040, 7041>>, <<7074, 7077>>, <<7080, 7081>>,
      <<7083, 7085>>, <<7142, 7142>>, <<7144, 7145>>, <<7149, 7149>>,
      <<7151, 7153>>, <<7212, 7219>>, <<7222, 7223>>, <<7288, 7293>>,
      <<7376, 7378>>, <<7380, 7392>>, <<7394, 7400>>, <<7405, 7405>>,
      <<7412, 7412>>, <<7416, 7417>>, <<7468, 7530>>, <<7544, 7544>>,
      <<7579, 7679>>, <<8125, 8125>>, <<8127, 8129>>, <<8141, 8143>>,
      <<8157, 8159>>, <<8173, 8175>>, <<8189, 8190>>, <<8203, 8207>>,
      <<8216, 8217>>, <<8228, 8228>>, <<8231, 8231>>, <<8234, 8238>>,
      <<8288, 8292>>, <<8294, 8303>>, <<8305, 8305>>, <<8319, 8319>>,
      <<8336, 8348>>, <<8400, 8432>>, <<11388, 11389>>, <<11503, 11505>>,
      <<11631, 11631>>, <<11647, 11647>>, <<11744, 11775>>, <<11823, 11823>>,
      <<12293, 12293>>, <<12330, 12333>>, <<12337, 12341>>, <<12347, 12347>>,
      <<12441, 12446>>, <<12540, 12542>>, <<40981, 40981>>, <<42232, 42237>>,
      <<42508, 42508>>, <<42607, 42610>>, <<42612, 42621>>, <<42623, 42623>>,
      <<42652, 42655>>, <<42736, 42737>>, <<42752, 42785>>, <<42864, 42864>>,
      <<42888, 42890>>, <<42994, 42996>>, <<43000, 43001>>, <<43010, 43010>>,
      <<43014, 43014>>, <<43019, 43019>>, <<43045, 43046>>, <<43052, 43052>>,
      <<43204, 43205>>, <<43232, 43249>>, <<43263, 43263>>, <<43302, 43309>>,
      <<43335, 43345>>, <<43392, 43394>>, <<43443, 43443>>, <<43446, 43449>>,
      <<43452, 43453>>, <<43471, 43471>>, <<43493, 43494>>, <<43561, 43566>>,
      <<43569, 43570>>, <<43573, 43574>>, <<43587, 43587>>, <<43596, 43596>>,
      <<43632, 43632>>, <<43644, 43644>>, <<43696, 43696>>, <<43698, 43700>>,
      <<43703, 43704>>, <<43710, 43711>>, <<43713, 43713>>, <<43741, 43741>>,
      <<43756, 43757>>, <<43763, 43764>>, <<43766, 43766>>, <<43867, 43871>>,
      <<43881, 43883>>, <<44005, 44005>>, <<44008, 44008>>, <<44013, 44013>>,
      <<64286, 64286>>, <<64434, 64450>>, <<65024, 65039>>, <<65043, 65043>>,
      <<65056, 65071>>, <<65106, 65106>>, <<65109, 65109>>, <<65279, 65279>>,
      <<65287, 65287>>, <<65294, 65294>>, <<65306, 65306>>, <<65342, 65342>>,
      <<65344, 65344>>, <<65392, 65392>>, <<65438, 65439>>, <<65507, 65507>>,
      <<65529, 65531>>, <<66045, 66045>>, <<66272, 66272>>, <<66422, 66426>>,
      <<67456, 67461>>, <<67463, 67504>>, <<67506, 67514>>, <<68097, 68099>>,
      <<68101, 68102>>, <<68108, 68111>>, <<68152, 68154>>, <<68159, 68159>>,
      <<68325, 68326>>, <<68900, 68903>>, <<69291, 69292>>, <<69446, 69456>>,
      <<69506, 69509>>, <<69633, 69633>>, <<69688, 69702>>, <<69744, 69744>>,
      <<69747, 69748>>, <<69759, 69761>>, <<69811, 69814>>, <<69817, 69818>>,
      <<69821, 69821>>, <<69826, 69826>>, <<69837, 69837>>, <<69888, 69890>>,
      <<69927, 69931>>, <<69933, 69940>>, <<70003, 70003>>, <<70016, 70017>>,
      <<70070, 70078>>, <<70089, 70092>>, <<70095, 70095>>, <<70191, 70193>>,
      <<70196, 70196>>, <<70198, 70199>>, <<70206, 70206>>, <<70367, 70367>>,
      <<70371, 70378>>, <<70400, 70401>>, <<70459, 70460>>, <<70464, 70464>>,
      <<70502, 70508>>, <<70512, 70516>>, <<70712, 70719>>, <<70722, 70724>>,
      <<70726, 70726>>, <<70750, 70750>>, <<70835, 70840>>, <<70842, 70842>>,
      <<70847, 70848>>, <<70850, 70851>>, <<71090, 71093>>, <<71100, 71101>>,
      <<71103, 71104>>, <<71132, 71133>>, <<71219, 71226>>, <<71229, 71229>>,
      <<71231, 71232>>, <<71339, 71339>>, <<71341, 71341>>, <<71344, 71349>>,
      <<71351, 71351>>, <<71453, 71455>>, <<71458, 71461>>, <<71463, 71467>>,
      <<71727, 71735>>, <<71737, 71738>>, <<71995, 71996>>, <<71998, 71998>>,
      <<72003, 72003>>, <<72148, 72151>>, <<72154, 72155>>, <<72160, 72160>>,
      <<72193, 72202>>, <<72243, 72248>>, <<72251, 72254>>, <<72263, 72263>>,
      <<72273, 72278>>, <<72281, 72283>>, <<72330, 72342>>, <<72344, 72345>>,
      <<72752, 72758>>, <<72760, 72765>>, <<72767, 72767>>, <<72850, 72871>>,
      <<72874, 72880>>, <<72882, 72883>>, <<72885, 72886>>, <<73009, 73014>>,
      <<73018, 73018>>, <<73020, 73021>>, <<73023, 73029>>, <<73031, 73031>>,
      <<73104, 73105>>, <<73109, 73109>>, <<73111, 73111>>, <<73459, 73460>>,
      <<78896, 78904>>, <<92912, 92916>>, <<92976, 92982>>, <<92992, 92995>>,
      <<94031, 94031>>, <<94095, 94111>>, <<94176, 94177>>, <<94179, 94180>>,
      <<110576, 110579>>, <<110581, 110587>>, <<110589, 110590>>,
      <<113821, 113822>>, <<113824, 113827>>, <<118528, 118573>>,
      <<118576, 118598>>, <<119143, 119145>>, <<119155, 119170>>,
      <<119173, 119179>>, <<119210, 119213>>, <<119362, 119364>>,
      <<121344, 121398>>, <<121403, 121452>>, <<121461, 121461>>,
      <<121476, 121476>>, <<121499, 121503>>, <<121505, 121519>>,
      <<122880, 122886>>, <<122888, 122904>>, <<122907, 122913>>,
      <<122915, 122916>>, <<122918, 122922>>, <<123184, 123197>>,
      <<123566, 123566>>, <<123628, 123631>>, <<125136, 125142>>,
      <<125252, 125259>>, <<127995, 127999>>, <<917505, 917505>>,
      <<917536, 917631>>, <<917760, 917999>> }

\* the cased characters that are not case-ignorable, as <<first, last>>
CasedRanges ==
    { <<65, 90>>, <<97, 122>>, <<170, 170>>, <<181, 181>>, <<186, 186>>,
      <<192, 214>>, <<216, 246>>, <<248, 442>>, <<444, 447>>, <<452, 659>>,
      <<661, 687>>, <<880, 883>>, <<886, 887>>, <<891, 893>>, <<895, 895>>,
      <<902, 902>>, <<904, 906>>, <<908, 908>>, <<910, 929>>, <<931, 1013>>,
      <<1015, 1153>>, <<1162, 1327>>, <<1329, 1366>>, <<1376, 1416>>,
      <<4256, 4293>>, <<4295, 4295>>, <<4301, 4301>>, <<4304, 4346>>,
      <<4349, 4351>>, <<5024, 5109>>, <<5112, 5117>>, <<7296, 7304>>,
      <<7312, 7354>>, <<7357, 7359>>, <<7424, 7467>>, <<7531, 7543>>,
      <<7545, 7578>>, <<7680, 7957>>, <<7960, 7965>>, <<7968, 8005>>,
      <<8008, 8013>>, <<8016, 8023>>, <<8025, 8025>>, <<8027, 8027>>,
      <<8029, 8029>>, <<8031, 8061>>, <<8064, 8116>>, <<8118, 8124>>,
      <<8126, 8126>>, <<8130, 8132>>, <<8134, 8140>>, <<8144, 8147>>,
      <<8150, 8155>>, <<8160, 8172>>, <<8178, 8180>>, <<8182, 8188>>,
      <<8450, 8450>>, <<8455, 8455>>, <<8458, 8467>>, <<8469, 8469>>,
      <<8473, 8477>>, <<8484, 8484>>, <<8486, 8486>>, <<8488, 8488>>,
      <<8490, 8493>>, <<8495, 8500>>, <<8505, 8505>>, <<8508, 8511>>,
      <<8517, 8521>>, <<8526, 8526>>, <<8544, 8575>>, <<8579, 8580>>,
      <<9398, 9449>>, <<11264, 11387>>, <<11390, 11492>>, <<11499, 11502>>,
      <<11506, 11507>>, <<11520, 11557>>, <<11559, 11559>>, <<11565, 11565>>,
      <<42560, 42605>>, <<42624, 42651>>, <<42786, 42863>>, <<42865, 42887>>,
      <<42891, 42894>>, <<42896, 42954>>, <<42960, 42961>>, <<42963, 42963>>,
      <<42965, 42969>>, <<42997, 42998>>, <<43002, 43002>>, <<43824, 43866>>,
      <<43872, 43880>>, <<43888, 43967>>, <<64256, 64262>>, <<64275, 64279>>,
      <<65313, 65338>>, <<65345, 65370>>, <<66560, 66639>>, <<66736, 66771>>,
      <<66776, 66811>>, <<66928, 66938>>, <<66940, 66954>>, <<66956, 66962>>,
      <<66964, 66965>>, <<66967, 66977>>, <<66979, 66993>>, <<66995, 67001>>,
      <<67003, 67004>>, <<68736, 68786>>, <<68800, 68850>>, <<71840, 71903>>,
      <<93760, 93823>>, <<119808, 119892>>, <<119894, 119964>>,
      <<119966, 119967>>, <<119970, 119970>>, <<119973, 119974>>,
      <<119977, 119980>>, <<119982, 119993>>, <<119995, 119995>>,
      <<119997, 120003>>, <<120005, 120069>>, <<120071, 120074>>,
      <<120077, 120084>>, <<120086, 120092>>, <<120094, 120121>>,
      <<120123, 120126>>, <<120128, 120132>>, <<120134, 120134>>,
      <<120138, 120144>>, <<120146, 120485>>, <<120488, 120512>>,
      <<120514, 120538>>, <<120540, 120570>>, <<120572, 120596>>,
      <<120598, 120628>>, <<120630, 120654>>, <<120656, 120686>>,
      <<120688, 120712>>, <<120714, 120744>>, <<120746, 120770>>,
      <<120772, 120779>>, <<122624, 122633>>, <<122635, 122654>>,
      <<125184, 125251>>, <<127280, 127305>>, <<127312, 127337>>,
      <<127344, 127369>> }

InRanges(c, R) == \E r \in R : r[1] <= c /\ c <= r[2]

CaseIgnorable(c) == InRanges(c, CaseIgnorableRanges)

Cased(c) == InRanges(c, CasedRanges)

\* str.lower() of one character that lowers to one character
LowerChar(c) ==
    LET R == {r \in LowerRules :
                r[1] <= c /\ c <= r[2] /\ (c - r[1]) % r[3] = 0}
    IN  IF R = {} THEN c
        ELSE LET r == CHOOSE x \in R : TRUE IN r[4] + (c - r[1])

\* a capital sigma at position i of s is final: the nearest character before
\* it that is not case-ignorable is cased, and the nearest one after it, if
\* any, is not
FinalSigma(s, i) ==
    LET before == {j \in 1..(i - 1) : ~CaseIgnorable(s[j])}
        after  == {j \in (i + 1)..Len(s) : ~CaseIgnorable(s[j])}
    IN  /\ before # {}
        /\ Cased(s[CHOOSE j \in before : \A k \in before : k <= j])
        /\ after # {} =>
              ~Cased(s[CHOOSE j \in after : \A k \in after : j <= k])

\* str.lower() of the character at position i of s: capital sigma U+03A3
\* gives final or small sigma, capital I with dot above U+0130 gives i and a
\* combining dot above
LowerAt(s, i) ==
    IF s[i] = 931 THEN (IF FinalSigma(s, i) THEN <<962>> ELSE <<963>>)
    ELSE IF s[i] = 304 THEN <<105, 775>>
    ELSE <<LowerChar(s[i])>>

RECURSIVE LowerFrom(_, _)
LowerFrom(s, i) ==
    IF i > Len(s) THEN <<>> ELSE LowerAt(s, i) \o LowerFrom(s, i + 1)

\* str.lower()
Lower(s) == LowerFrom(s, 1)

\* str.replace("_", " ")
ReplaceUnderscore(s) ==
    [k \in 1..Len(s) |-> IF s[k] = Ord("_") THEN Ord(" ") ELSE s[k]]

\* str.strip()
Strip(s) ==
    LET ink == {k \in 1..Len(s) : s[k] \notin Whitespace}
    IN  IF ink = {} THEN <<>>
        ELSE LET lo == CHOOSE k \in ink : \A j \in ink : k <= j
                 hi == CHOOSE k \in ink : \A j \in ink : k >= j
             IN  SubSeq(s, lo, hi)

\* Python's `s in t` for two strings: s is a substring of t
InStr(s, t) ==
    \E k \in 0..(Len(t) - Len(s)) : SubSeq(t, k + 1, k + Len(s)) = s

\* line 175
Normalize(s) == Strip(ReplaceUnderscore(Lower(s)))

\* The literals of lines 177-194.
S_this_week_u == Str(<<"t","h","i","s","_","w","e","e","k">>)
S_this_week   == Str(<<"t","h","i","s"," ","w","e","e","k">>)
S_full_week_u == Str(<<"f","u","l","l","_","w","e","e","k">>)
S_full_week   == Str(<<"f","u","l","l"," ","w","e","e","k">>)
S_next_week_u == Str(<<"n","e","x","t","_","w","e","e","k">>)
S_next_week   == Str(<<"n","e","x","t"," ","w","e","e","k">>)
S_last_week_u == Str(<<"l","a","s","t","_","w","e","e","k">>)
S_last_week   == Str(<<"l","a","s","t"," ","w","e","e","k">>)

\* `"full_week" or "full week"`: the first operand is truthy, so it is the value
FullWeekOperand == IF Len(S_full_week_u) > 0 THEN S_full_week_u ELSE S_full_week
\* `"next_week" "next week"`: adjacent literals are concatenated
NextWeekOperand == S_next_week_u \o S_next_week

\* line 177: membership in a tuple of two strings
IsThisWeek(s) == s = S_this_week_u \/ s = S_this_week
\* line 182: `in` applied to one string is the substring test
IsFullWeek(s) == InStr(s, FullWeekOperand)
\* line 187: `in` applied to one string is the substring test
IsNextWeek(s) == InStr(s, NextWeekOperand)
\* line 194: membership in a tuple of two strings
IsLastWeek(s) == s = S_last_week_u \/ s = S_last_week

(***************************************************************************)
(* Calendar: datetime ordinals, weekday() and strftime('%Y-%m-%d').        *)
(***************************************************************************)
\* datetime.weekday(): Monday is 0
Weekday(ord) == (ord + 6) % 7

DaysBeforeMonth == <<0, 31, 59, 90, 120, 151, 181, 212, 243, 273, 304, 334>>
DaysInMonth == <<31, 28, 31, 30, 31, 30, 31, 31, 30, 31, 30, 31>>

\* strftime('%Y-%m-%d') of the date with ordinal ord, as <<year, month, day>>
Strftime(ord) ==
    LET n0   == ord - 1
        n400 == n0 \div 146097
        r400 == n0 % 146097
        n100 == r400 \div 36524
        r100 == r400 % 36524
        n4   == r100 \div 1461
        r4   == r100 % 1461
        n1   == r4 \div 365
        n    == r4 % 365
        year == n400 * 400 + 1 + n100 * 100 + n4 * 4 + n1
        leap == n1 = 3 /\ (n4 # 24 \/ n100 = 3)
        mth  == (n + 50) \div 32
        prec == DaysBeforeMonth[mth] + (IF mth > 2 /\ leap THEN 1 ELSE 0)
        mth2 == IF prec > n THEN mth - 1 ELSE mth
        prec2 == IF prec > n
                 THEN prec - (DaysInMonth[mth2] + (IF mth2 = 2 /\ leap THEN 1 ELSE 0))
                 ELSE prec
    IN  IF n1 = 4 \/ n100 = 4 THEN <<year - 1, 12, 31>>
        ELSE <<year, mth2, n - prec2 + 1>>

\* Words the date parser is given in this model.
S_yesterday == Str(<<"y","e","s","t","e","r","d","a","y">>)
S_today     == Str(<<"t","o","d","a","y">>)
S_tomorrow  == Str(<<"t","o","m","o","r","r","o","w">>)
S_zzzqqq    == Str(<<"z","z","z","q","q","q">>)

\* dateparser.parse(s): what it may return, <<ordinal>> or <<>> for None.  The
\* library is not part of the repository: the relative day words resolve
\* against today, "zzzqqq" is unparseable, and any other text may or may not
\* parse.
DateParser(s, now) ==
    CASE s = S_yesterday -> {<<now - 1>>}
      [] s = S_today     -> {<<now>>}
      [] s = S_tomorrow  -> {<<now + 1>>}
      [] s = S_zzzqqq    -> {<<>>}
      [] OTHER           -> {<<>>, <<now>>}

\* for i in range(5): dates.append((start + timedelta(days=i)).strftime(...))
MonToFri(start) == [i \in 1..5 |-> Strftime(start + (i - 1))]

\* dates = [parsed.strftime('%Y-%m-%d')]
ParsedDates(parsed) == <<Strftime(parsed[1])>>

\* a variant that forgets the offset of today in its week
SameDayNextWeek(now) == now + 7

\* line 189: start = today + timedelta(days=(7 - today.weekday()))
NextWeekStart(now) == now + (7 - Weekday(now))

\* a variant that prefers work_date when both are given
DateRangeUnlessWorkDate(wd, dr) == dr # <<>> /\ wd = <<>>

\* line 174: `if date_range:`, tested before work_date is looked at
DateRangeGiven(wd, dr) == dr # <<>>

\* a variant that falls back to today when the expression does not parse
resolve_dates_lenient(wd, dr, now) ==
    LET week == IF IsThisWeek(Normalize(dr)) \/ IsFullWeek(Normalize(dr))
                THEN {[kind |-> "dates", dates |-> MonToFri(now - Weekday(now))]}
                ELSE IF IsNextWeek(Normalize(dr))
                THEN {[kind |-> "dates", dates |-> MonToFri(now + (7 - Weekday(now)))]}
                ELSE IF IsLastWeek(Normalize(dr))
                THEN {[kind |-> "dates", dates |-> MonToFri(now - (Weekday(now) + 7))]}
                ELSE {}
        text == IF dr # <<>> THEN dr ELSE wd
    IN  IF dr # <<>> /\ week # {} THEN week
        ELSE IF text = <<>> THEN {[kind |-> "dates", dates |-> <<Strftime(now)>>]}
        ELSE {[kind |-> "dates",
               dates |-> IF parsed = <<>> THEN <<Strftime(now)>>
                         ELSE ParsedDates(parsed)] :
                 parsed \in DateParser(text, now)}

\* resolve_dates(work_date, date_range): every outcome it can have, a list of
\* dates or the ValueError it raises
resolve_dates(wd, dr, now) ==
    IF DateRangeGiven(wd, dr) THEN
        LET date_range_lower == Normalize(dr) IN
        IF IsThisWeek(date_range_lower) THEN
            {[kind |-> "dates", dates |-> MonToFri(now - Weekday(now))]}
        ELSE IF IsFullWeek(date_range_lower) THEN
            {[kind |-> "dates", dates |-> MonToFri(now - Weekday(now))]}
        ELSE IF IsNextWeek(date_range_lower) THEN
            {[kind |-> "dates", dates |-> MonToFri(NextWeekStart(now))]}
        ELSE IF IsLastWeek(date_range_lower) THEN
            {[kind |-> "dates", dates |-> MonToFri(now - (Weekday(now) + 7))]}
        ELSE
            {IF parsed = <<>>
             THEN [kind |-> "ValueError", what |-> "date_range"]
             ELSE [kind |-> "dates", dates |-> ParsedDates(parsed)]
               : parsed \in DateParser(dr, now)}
    ELSE IF wd # <<>> THEN
        {IF parsed = <<>>
         THEN [kind |-> "ValueError", what |-> "work_date"]
         ELSE [kind |-> "dates", dates |-> ParsedDates(parsed)]
           : parsed \in DateParser(wd, now)}
    ELSE
        {[kind |-> "dates", dates |-> <<Strftime(now)>>]}

(***************************************************************************)
(* Floating point: Python's int / int, float * int and int(float) on       *)
(* IEEE-754 doubles, round to nearest, ties to even.                       *)
(***************************************************************************)
Pow2Table == <<1, 2, 4, 8, 16, 32, 64, 128, 256, 512, 1024, 2048, 4096, 8192,
               16384, 32768, 65536, 131072, 262144, 524288, 1048576, 2097152,
               4194304, 8388608, 16777216, 33554432, 67108864, 134217728,
               268435456, 536870912, 1073741824>>
\* 2^k, 0 <= k <= 30
Pow2(k) == Pow2Table[k + 1]

\* the number of binary digits of n >= 0
BitLen(n) == Cardinality({k \in 0..30 : Pow2(k) <= n})

\* the low w binary digits of n, most significant first
BitsW(n, w) == [i \in 1..w |-> (n \div Pow2(w - i)) % 2]

\* the binary digits of n >= 0, most significant first (none for 0)
BitsOf(n) == BitsW(n, BitLen(n))

RECURSIVE ValueOf(_)
\* the number a sequence of at most 31 binary digits spells
ValueOf(bits) ==
    IF Len(bits) = 0 THEN 0
    ELSE IF Len(bits) = 1 THEN bits[1]
    ELSE LET h == Len(bits) \div 2
         IN  ValueOf(SubSeq(bits, 1, h)) * Pow2(Len(bits) - h)
               + ValueOf(SubSeq(bits, h + 1, Len(bits)))

\* bits + 1 (one digit longer when every digit was 1): the last 0 becomes 1
\* and the 1s after it become 0
Incr(bits) ==
    LET zeros == {k \in 1..Len(bits) : bits[k] = 0}
    IN  IF zeros = {}
        THEN <<1>> \o [k \in 1..Len(bits) |-> 0]
        ELSE LET j == CHOOSE k \in zeros : \A i \in zeros : i <= k
             IN  [k \in 1..Len(bits) |->
                    IF k < j THEN bits[k] ELSE IF k = j THEN 1 ELSE 0]

\* the 53-bit mantissa m with last-bit exponent e, rounded up when up holds
RoundDouble(m, e, up) ==
    IF ~up THEN [m |-> m, e |-> e]
    ELSE LET m1 == Incr(m)
         IN  IF Len(m1) > Len(m)
             THEN [m |-> SubSeq(m1, 1, Len(m)), e |-> e + 1]
             ELSE [m |-> m1, e |-> e]

FloatZero == [m |-> <<>>, e |-> 0]

RECURSIVE Pow65536Mod(_, _)
\* 65536^j mod b
Pow65536Mod(j, b) ==
    IF j = 0 THEN 1 % b ELSE (Pow65536Mod(j - 1, b) * (65536 % b)) % b

\* 2^k mod b, for b < 32768
Pow2Mod(k, b) == ((Pow2(k % 16) % b) * Pow65536Mod(k \div 16, b)) % b

\* long division of r by b, 0 <= r < b < 32768: the remainder left after j
\* digits of the fraction r / b
DivRem(r, b, j) == (r * Pow2Mod(j, b)) % b

\* the j-th binary digit (j >= 1) of the fraction r / b
DivDigit(r, b, j) == IF 2 * DivRem(r, b, j - 1) >= b THEN 1 ELSE 0

\* a / b for integers a >= 0, 0 < b < 32768: the double nearest the quotient
TrueDiv(a, b) ==
    IF a = 0 THEN FloatZero
    ELSE LET ibits == BitsOf(a \div b)
             r     == a % b
             \* leading zero digits of the fraction that precede the mantissa
             z     == IF ibits # <<>> THEN 0
                      ELSE (CHOOSE j \in 1..16 :
                              /\ DivDigit(r, b, j) = 1
                              /\ \A i \in 1..(j - 1) : DivDigit(r, b, i) = 0) - 1
             nfrac == 53 - Len(ibits)
             m     == ibits \o [j \in 1..nfrac |-> DivDigit(r, b, z + j)]
             rem   == DivRem(r, b, z + nfrac)
             up    == 2 * rem > b \/ (2 * rem = b /\ m[53] = 1)
         IN  RoundDouble(m, -(z + nfrac), up)

\* x * c for a double x >= 0 and an integer 0 < c < 8192: the double nearest
\* the product.  The mantissa is multiplied in three limbs of 17, 18 and 18 bits.
FloatMul(x, c) ==
    IF x = FloatZero THEN FloatZero
    ELSE LET l2   == ValueOf(SubSeq(x.m, 1, 17))
             l1   == ValueOf(SubSeq(x.m, 18, 35))
             l0   == ValueOf(SubSeq(x.m, 36, 53))
             v0   == l0 * c
             v1   == l1 * c + v0 \div 262144
             v2   == l2 * c + v1 \div 262144
             p    == BitsOf(v2) \o BitsW(v1 % 262144, 18) \o BitsW(v0 % 262144, 18)
             drop == Len(p) - 53
             top  == SubSeq(p, 1, 53)
             rest == SubSeq(p, 54, Len(p))
             half == drop > 0 /\ rest[1] = 1
             more == \E k \in 2..drop : rest[k] = 1
             up   == half /\ (more \/ top[53] = 1)
         IN  RoundDouble(top, x.e + drop, up)

\* int(x) for a double 0 <= x < 2^31: truncation
IntTrunc(x) ==
    IF x = FloatZero \/ 53 + x.e <= 0 THEN 0
    ELSE ValueOf(SubSeq(x.m, 1, 53 + x.e))

\* line 153: total_hours = time_seconds / 3600
TotalHours(secs) == TrueDiv(secs, 3600)

\* line 259: total_seconds = int(total_hours * 3600)
TotalSeconds(total_hours) == IntTrunc(FloatMul(total_hours, 3600))

(***************************************************************************)
(* Times of day: strptime(work_start, "%H:%M:%S"), timedelta, strftime.    *)
(***************************************************************************)
\* seconds since midnight of <<h, m, s>>
ToSeconds(t) == t[1] * 3600 + t[2] * 60 + t[3]

\* strftime("%H:%M:%S") of the time secs seconds after base_time's midnight:
\* the date part is not printed
StrftimeHMS(secs) ==
    LET d == secs % 86400
    IN  <<d \div 3600, (d % 3600) \div 60, d % 60>>

(***************************************************************************)
(* The remote services.                                                    *)
(***************************************************************************)
AccountIds == {"acc-1", "acc-2"}

\* The in-progress issues the tracker may hold, in the order a search lists them.
Pool == << [key |-> "MGAP-7", id |-> "10007"],
           [key |-> "MGAP-2", id |-> "10002"],
           [key |-> "MGAP-5", id |-> "10005"],
           [key |-> "MGAP-1", id |-> "10001"] >>

\* The lists a search may answer: none, a single issue, and the longest list.
IssueLists ==
    {SubSeq(Pool, 1, n) :
        n \in {0, 1, IF MaxItems < Len(Pool) THEN MaxItems ELSE Len(Pool)}}

\* Responses: outcome "http" is an HTTP response with its status, its text
\* and what its JSON carries; outcome "fault" is an exception raised by the
\* call (a transport fault, or a body that does not parse).
MyselfResponses ==
    {[outcome |-> "http", status |-> 200, text |-> "ok", accountId |-> a] :
        a \in AccountIds}
      \cup {[outcome |-> "http", status |-> 401, text |-> "auth-error", accountId |-> ""],
            [outcome |-> "fault", status |-> 0, text |-> "fault", accountId |-> ""]}

IssueResponses ==
    {[outcome |-> "http", status |-> 200, text |-> "ok", id |-> "20001"],
     [outcome |-> "http", status |-> 404, text |-> "issue-error", id |-> ""],
     [outcome |-> "fault", status |-> 0, text |-> "fault", id |-> ""]}

SearchResponses ==
    {[outcome |-> "http", status |-> 200, text |-> "ok", issues |-> l] :
        l \in IssueLists}
      \cup {[outcome |-> "http", status |-> 400, text |-> "search-error", issues |-> <<>>],
            [outcome |-> "fault", status |-> 0, text |-> "fault", issues |-> <<>>]}

PostResponses ==
    {[outcome |-> "http", status |-> 201, text |-> "created"],
     [outcome |-> "http", status |-> 400, text |-> "post-error"],
     [outcome |-> "fault", status |-> 0, text |-> "fault"]}

\* A non-success HTTP response: one the remote side gives at most MaxFailures
\* times in a run.
BusinessFailure(resp, ok_statuses) ==
    resp.outcome = "http" /\ resp.status \notin ok_statuses

Allowed(resp, ok_statuses) ==
    BusinessFailure(resp, ok_statuses) => failures < MaxFailures

Failed(resp, ok_statuses) == IF BusinessFailure(resp, ok_statuses) THEN 1 ELSE 0

(***************************************************************************)
(* What _run returns, and the lines it collects.                           *)
(***************************************************************************)
Running == [kind |-> "running", text |-> "", body |-> "", lines |-> <<>>]

\* line 166: f"Exception occurred: {str(e)}"
ExceptionOccurred(text, body) ==
    [kind |-> "Exception occurred", text |-> text, body |-> body, lines |-> <<>>]

\* line 155
TotalHoursRequired ==
    [kind |-> "total_hours is required in auto_from_jira mode.",
     text |-> "", body |-> "", lines |-> <<>>]

\* a variant that returns the line of the last date only
JoinedLastOnly(lines) ==
    [kind |-> "report", text |-> "", body |-> "",
     lines |-> IF lines = <<>> THEN <<>> ELSE <<lines[Len(lines)]>>]

\* line 163: "\n".join(results)
Joined(lines) == [kind |-> "report", text |-> "", body |-> "", lines |-> lines]

\* line 161: f"{date}: {result}"
Line(date, result) == [date |-> date, result |-> result]

\* a variant that turns an error status into an exception (raise_for_status)
RaisesForStatus(resp) == resp.outcome = "fault" \/ resp.status >= 400

\* lines 299-306: requests raises only on a fault; no status is turned into
\* an exception
Raises(resp) == resp.outcome = "fault"

\* a variant that does not look at the status of the identity response
AccountInfoNeverFailed(resp) == FALSE

\* line 226
AccountInfoFailed(resp) == resp.status # 200

\* lines 307-310
post_worklog_result(key, secs, resp) ==
    IF resp.status \in {200, 201}
    THEN [kind |-> "Logged", key |-> key, hours |-> secs \div 3600]
    ELSE [kind |-> "Failed for", key |-> key, body |-> resp.text]

\* lines 290-298: the JSON body of the POST (the description is passed
\* through unchanged and is left out)
Payload(key, id, secs, date, start, author) ==
    [issueKey |-> key, issueId |-> id, timeSpentSeconds |-> secs,
     startDate |-> date, startTime |-> start, authorAccountId |-> author]

\* The record of one remote call: the operation, the loop iteration that
\* issued it (0 before the loop), the position in the issue list (automatic
\* mode), the request payload (POST) and the response.
Call(op, iter, item, payload, resp) ==
    [op |-> op, iter |-> iter, item |-> item, payload |-> payload, resp |-> resp]

NoPayload == Payload("", "", 0, <<>>, <<>>, "")

(***************************************************************************)
(* _run, one action per step between two remote calls.                     *)
(***************************************************************************)
AutoMode == issue_key = "MGAP-X"

\* the date of the current iteration of `for date in dates_to_log`
CurrentDate == dates_to_log[date_idx]

\* a variant that walks the issue list from its end
IssueFromTheEnd == issues[Len(issues) - item_idx]

\* the issue of the current iteration of `for i, issue in enumerate(issues)`
CurrentIssue == issues[item_idx + 1]

\* lines 268-269
TimeForThisIssue(i) == base_seconds + (IF i < remaining_seconds THEN 1 ELSE 0)

\* a variant that submits every item of a date with the start of the day
IssueStartUnshifted(i) == StrftimeHMS(ToSeconds(work_start))

\* lines 272-273
IssueStartStr(i) == StrftimeHMS(ToSeconds(work_start) + i * base_seconds)

\* a variant that takes the author from the settings, not from the lookup
ConfiguredAuthor == "acc-1"

\* the authorAccountId _run hands to every submission
Author == account_id

\* a variant that spreads the requested duration over the dates of the run
ManualPayloadPerDate ==
    Payload(issue_key, issue_id, time_seconds \div Len(dates_to_log),
            CurrentDate, work_start, Author)

\* line 241: what log_manual hands to post_worklog
ManualPayload ==
    Payload(issue_key, issue_id, time_seconds, CurrentDate, work_start, Author)

\* a variant that takes only a server error for a refused search
SearchServerError(resp) == resp.status >= 500

\* line 253: `if search_response.status_code != 200`
SearchRefused(resp) == resp.status # 200

\* a variant that does not test the search result for emptiness
NoIssuesUnchecked(found) == FALSE

\* line 256: `if not issues`
NoIssues(found) == found = <<>>

\* a variant without the except clause: the exception leaves _run
AbortPropagates(text, body) ==
    /\ ret' = ret
    /\ pc' = "raised"

\* the except clause of _run: the exception becomes the returned text
Abort(text, body) ==
    /\ ret' = ExceptionOccurred(text, body)
    /\ pc' = "done"

\* a variant that attempts a date again when its line reports a failure
NextDateRetrying(result) ==
    IF result.kind \in {"Failed to fetch issue", "Failed for",
                        "Failed to fetch in-progress issues"}
    THEN /\ results' = results
         /\ date_idx' = date_idx
         /\ pc' = "loop"
         /\ ret' = ret
    ELSE /\ results' = Append(results, Line(CurrentDate, result))
         /\ date_idx' = date_idx + 1
         /\ pc' = "loop"
         /\ ret' = ret

\* line 161 and the next iteration of the loop over the dates
NextDate(result) ==
    /\ results' = Append(results, Line(CurrentDate, result))
    /\ date_idx' = date_idx + 1
    /\ pc' = "loop"
    /\ ret' = ret

\* line 133
Resolve ==
    /\ pc = "resolve"
    /\ \E out \in resolve_dates(work_date, date_range, today) :
         IF out.kind = "dates"
         THEN /\ dates_to_log' = out.dates
              /\ pc' = "get_account_id"
              /\ ret' = ret
         ELSE /\ Abort("Could not parse", out.what)
              /\ dates_to_log' = dates_to_log
    /\ UNCHANGED <<today, time_seconds, issue_key, work_date, date_range,
                   work_start, account_id, results, date_idx, issue_id, issues,
                   total_seconds, base_seconds, remaining_seconds, item_idx,
                   auto_results, calls, failures>>

\* line 136 and get_account_id, lines 219-228
GetAccountId ==
    /\ pc = "get_account_id"
    /\ \E resp \in MyselfResponses :
         /\ calls' = Append(calls, Call("myself", 0, 0, NoPayload, resp))
         /\ IF Raises(resp) THEN
                /\ Abort("fault", resp.text)
                /\ UNCHANGED <<account_id, results, date_idx>>
            ELSE IF AccountInfoFailed(resp) THEN
                /\ Abort("Failed to fetch account info", resp.text)
                /\ UNCHANGED <<account_id, results, date_idx>>
            ELSE
                /\ account_id' = resp.accountId
                /\ results' = <<>>
                /\ date_idx' = 1
                /\ pc' = "loop"
                /\ ret' = ret
    /\ UNCHANGED <<today, time_seconds, issue_key, work_date, date_range,
                   work_start, dates_to_log, issue_id, issues, total_seconds,
                   base_seconds, remaining_seconds, item_idx, auto_results,
                   failures>>

\* line 163: the loop is over
ReturnResults ==
    /\ pc = "loop"
    /\ date_idx > Len(dates_to_log)
    /\ ret' = Joined(results)
    /\ pc' = "done"
    /\ UNCHANGED <<today, time_seconds, issue_key, work_date, date_range,
                   work_start, dates_to_log, account_id, results, date_idx,
                   issue_id, issues, total_seconds, base_seconds,
                   remaining_seconds, item_idx, auto_results, calls, failures>>

\* lines 141-149 and log_manual up to its return or its call of post_worklog,
\* lines 231-239
LogManualFetchIssue ==
    /\ pc = "loop"
    /\ date_idx <= Len(dates_to_log)
    /\ ~AutoMode
    /\ \E resp \in IssueResponses :
         /\ Allowed(resp, {200})
         /\ failures' = failures + Failed(resp, {200})
         /\ calls' = Append(calls, Call("issue", date_idx, 0, NoPayload, resp))
         /\ IF Raises(resp) THEN
                /\ Abort("fault", resp.text)
                /\ UNCHANGED <<results, date_idx, issue_id>>
            ELSE IF resp.status # 200 THEN
                /\ NextDate([kind |-> "Failed to fetch issue", key |-> issue_key,
                             body |-> resp.text])
                /\ UNCHANGED issue_id
            ELSE
                /\ issue_id' = resp.id
                /\ pc' = "post_manual"
                /\ UNCHANGED <<results, date_idx, ret>>
    /\ UNCHANGED <<today, time_seconds, issue_key, work_date, date_range,
                   work_start, dates_to_log, account_id, issues, total_seconds,
                   base_seconds, remaining_seconds, item_idx, auto_results>>

\* line 241 and post_worklog, lines 288-310
PostManual ==
    /\ pc = "post_manual"
    /\ \E resp \in PostResponses :
         /\ Allowed(resp, {200, 201})
         /\ failures' = failures + Failed(resp, {200, 201})
         /\ calls' = Append(calls,
                Call("post", date_idx, 0, ManualPayload, resp))
         /\ IF Raises(resp) THEN
                /\ Abort("fault", resp.text)
                /\ UNCHANGED <<results, date_idx>>
            ELSE
                NextDate(post_worklog_result(issue_key, time_seconds, resp))
    /\ UNCHANGED <<today, time_seconds, issue_key, work_date, date_range,
                   work_start, dates_to_log, account_id, issue_id, issues,
                   total_seconds, base_seconds, remaining_seconds, item_idx,
                   auto_results>>

\* lines 153-155
ReturnTotalHoursRequired ==
    /\ pc = "loop"
    /\ date_idx <= Len(dates_to_log)
    /\ AutoMode
    /\ TotalHours(time_seconds) = FloatZero
    /\ ret' = TotalHoursRequired
    /\ pc' = "done"
    /\ UNCHANGED <<today, time_seconds, issue_key, work_date, date_range,
                   work_start, dates_to_log, account_id, results, date_idx,
                   issue_id, issues, total_seconds, base_seconds,
                   remaining_seconds, item_idx, auto_results, calls, failures>>

\* lines 153-160 and log_auto_for_date up to its first submission, lines 245-263
SearchIssues ==
    /\ pc = "loop"
    /\ date_idx <= Len(dates_to_log)
    /\ AutoMode
    /\ TotalHours(time_seconds) # FloatZero
    /\ \E resp \in SearchResponses :
         /\ Allowed(resp, {200})
         /\ failures' = failures + Failed(resp, {200})
         /\ calls' = Append(calls, Call("search", date_idx, 0, NoPayload, resp))
         /\ IF Raises(resp) THEN
                /\ Abort("fault", resp.text)
                /\ UNCHANGED <<results, date_idx, issues, total_seconds,
                               base_seconds, remaining_seconds, item_idx,
                               auto_results>>
            ELSE IF SearchRefused(resp) THEN
                /\ NextDate([kind |-> "Failed to fetch in-progress issues",
                             body |-> resp.text])
                /\ UNCHANGED <<issues, total_seconds, base_seconds,
                               remaining_seconds, item_idx, auto_results>>
            ELSE IF NoIssues(resp.issues) THEN
                /\ NextDate([kind |-> "No in-progress issues found."])
                /\ issues' = resp.issues
                /\ UNCHANGED <<total_seconds, base_seconds, remaining_seconds,
                               item_idx, auto_results>>
            ELSE IF Len(resp.issues) = 0 THEN
                \* line 260: `total_seconds // len(issues)` raises
                \* ZeroDivisionError on an empty list
                /\ Abort("ZeroDivisionError",
                         "integer division or modulo by zero")
                /\ issues' = resp.issues
                /\ UNCHANGED <<results, date_idx, total_seconds, base_seconds,
                               remaining_seconds, item_idx, auto_results>>
            ELSE
                /\ issues' = resp.issues
                /\ total_seconds' = TotalSeconds(TotalHours(time_seconds))
                /\ base_seconds' = total_seconds' \div Len(resp.issues)
                /\ remaining_seconds' = total_seconds' % Len(resp.issues)
                /\ item_idx' = 0
                /\ auto_results' = <<>>
                /\ pc' = "post_auto"
                /\ UNCHANGED <<results, date_idx, ret>>
    /\ UNCHANGED <<today, time_seconds, issue_key, work_date, date_range,
                   work_start, dates_to_log, account_id, issue_id>>

\* one iteration of the loop of log_auto_for_date, lines 266-285, with its
\* call of post_worklog, and line 286 after the last one
PostAuto ==
    /\ pc = "post_auto"
    /\ \E resp \in PostResponses :
         LET secs  == TimeForThisIssue(item_idx)
             start == IssueStartStr(item_idx)
             \* line 285: the text shows round(secs / 3600, 2) hours
             part  == [kind |-> "hours at", key |-> CurrentIssue.key,
                       logged_secs |-> secs, start |-> start]
         IN  /\ Allowed(resp, {200, 201})
             /\ failures' = failures + Failed(resp, {200, 201})
             /\ calls' = Append(calls,
                    Call("post", date_idx, item_idx,
                         Payload(CurrentIssue.key, CurrentIssue.id, secs,
                                 CurrentDate, start, Author), resp))
             /\ IF Raises(resp) THEN
                    /\ Abort("fault", resp.text)
                    /\ UNCHANGED <<results, date_idx, item_idx, auto_results>>
                ELSE IF item_idx + 1 < Len(issues) THEN
                    /\ auto_results' = Append(auto_results, part)
                    /\ item_idx' = item_idx + 1
                    /\ UNCHANGED <<results, date_idx, pc, ret>>
                ELSE
                    /\ auto_results' = Append(auto_results, part)
                    /\ NextDate([kind |-> "joined", parts |-> auto_results'])
                    /\ UNCHANGED item_idx
    /\ UNCHANGED <<today, time_seconds, issue_key, work_date, date_range,
                   work_start, dates_to_log, account_id, issue_id, issues,
                   total_seconds, base_seconds, remaining_seconds>>

(***************************************************************************)
(* Requests and specifications.                                            *)
(***************************************************************************)
NoText == <<>>
S_This_Week_mixed == Str(<<"T","h","i","s","_","W","e","e","k">>)
S_next_week_padded == Str(<<" ","N","e","x","t","_","W","e","e","k"," ">>)
S_week == Str(<<"w","e","e","k">>)
S_next == Str(<<"n","e","x","t">>)
S_blank == Str(<<" "," "," ">>)
S_underscore == Str(<<"_">>)
S_k == Str(<<"k">>)
S_next_monday == Str(<<"n","e","x","t"," ","M","o","n","d","a","y">>)
\* "\rthis week\r" and "\r": carriage returns, which strip() removes
S_this_week_cr == <<13>> \o S_this_week \o <<13>>
S_cr == <<13>>
\* "NEXT WEEK" between a no-break space U+00A0 and an em space U+2003
S_next_week_spaced == <<160>> \o Str(<<"N","E","X","T"," ","W","E","E","K">>) \o <<8195>>
\* "last wee" and the Kelvin sign U+212A, which lower() turns into "k"
S_last_week_kelvin == Str(<<"l","a","s","t"," ","w","e","e">>) \o <<8490>>
\* "TH", capital I with dot above U+0130, "S WEEK": lower() gives ten characters
S_this_week_dotted == Str(<<"T","H">>) \o <<304>> \o Str(<<"S"," ","W","E","E","K">>)
\* capital omicron and capital sigma: lower() gives omicron and final sigma
S_omicron_sigma == <<927, 931>>

NineOClock == <<9, 0, 0>>
LateEvening == <<23, 59, 58>>

Request(secs, key, wd, dr, ws) ==
    [time_seconds |-> secs, issue_key |-> key, work_date |-> wd,
     date_range |-> dr, work_start |-> ws]

\* The requests of the runs explored.
Requests ==
    { Request(27000, "MGAP-X", NoText, S_this_week, NineOClock),
      Request(10000, "MGAP-X", NoText, NoText, NineOClock),
      Request(3600, "ABC-1", S_yesterday, NoText, NineOClock),
      Request(115, "MGAP-X", S_tomorrow, NoText, NineOClock),
      Request(0, "MGAP-X", NoText, S_last_week, NineOClock),
      Request(10000, "MGAP-X", NoText, S_zzzqqq, NineOClock),
      Request(5400, "ABC-1", S_yesterday, S_last_week, NineOClock),
      Request(7, "MGAP-X", NoText, S_full_week, LateEvening),
      Request(3600, "ABC-1", NoText, S_next_week_padded, LateEvening),
      Request(3600, "ABC-1", S_zzzqqq, NoText, NineOClock),
      Request(1, "ABC-1", NoText, S_week, NineOClock),
      Request(230, "MGAP-X", NoText, NoText, NineOClock) }

\* datetime.today() of the runs explored: Tuesday 2024-12-31, Sunday 2025-01-05
RunTodays == {739251, 739256}

\* The state when _run is entered with request req.
Entered(req, now) ==
    /\ today = now
    /\ time_seconds = req.time_seconds
    /\ issue_key = req.issue_key
    /\ work_date = req.work_date
    /\ date_range = req.date_range
    /\ work_start = req.work_start
    /\ pc = "resolve"
    /\ dates_to_log = <<>>
    /\ account_id = ""
    /\ results = <<>>
    /\ date_idx = 0
    /\ issue_id = ""
    /\ issues = <<>>
    /\ total_seconds = 0
    /\ base_seconds = 0
    /\ remaining_seconds = 0
    /\ item_idx = 0
    /\ auto_results = <<>>
    /\ calls = <<>>
    /\ failures = 0
    /\ ret = Running

Init == \E req \in Requests, now \in RunTodays : Entered(req, now)

Next ==
    \/ Resolve
    \/ GetAccountId
    \/ ReturnResults
    \/ LogManualFetchIssue
    \/ PostManual
    \/ ReturnTotalHoursRequired
    \/ SearchIssues
    \/ PostAuto

Spec == Init /\ [][Next]_vars

\* every run but the automatic run over the five dates of a week
ShortRequests ==
    {req \in Requests : req.issue_key = "MGAP-X" => req.date_range # S_this_week}

InitShort == \E req \in ShortRequests, now \in RunTodays : Entered(req, now)

SpecShort == InitShort /\ [][Next]_vars

\* resolve_dates alone, on every weekday of two weeks that span the turn of
\* a year and of two weeks that span a leap day
Todays == (739243..739256) \cup (738935..738948)

DateRanges ==
    { NoText, S_this_week, S_this_week_u, S_This_Week_mixed, S_full_week,
      S_full_week_u, S_next_week, S_next_week_u, S_next_week_padded,
      S_last_week, S_last_week_u, S_week, S_next, S_blank, S_underscore, S_k,
      S_zzzqqq, S_tomorrow, S_next_monday, S_this_week_cr, S_cr,
      S_next_week_spaced, S_last_week_kelvin, S_this_week_dotted,
      S_omicron_sigma }

WorkDates == { NoText, S_yesterday, S_zzzqqq }

InitResolve ==
    \E now \in Todays, dr \in DateRanges, wd \in WorkDates :
        Entered(Request(3600, "ABC-1", wd, dr, NineOClock), now)

NextResolve == Resolve

SpecResolve == InitResolve /\ [][NextResolve]_vars

(***************************************************************************)
(* Properties.                                                             *)
(***************************************************************************)
\* positions in the history of all the submissions of the run
AllPosts == {k \in 1..Len(calls) : calls[k].op = "post"}

\* positions in the history of the submissions of the d-th date
PostsOf(d) == {k \in 1..Len(calls) : calls[k].op = "post" /\ calls[k].iter = d}

\* positions in the history of the open-item searches of the d-th date
SearchesOf(d) == {k \in 1..Len(calls) : calls[k].op = "search" /\ calls[k].iter = d}

RECURSIVE SumSeconds(_)
\* the sum of timeSpentSeconds over the submissions at positions S
SumSeconds(S) ==
    IF S = {} THEN 0
    ELSE LET k == CHOOSE x \in S : TRUE
         IN  calls[k].payload.timeSpentSeconds + SumSeconds(S \ {k})

\* the list of open items returned for the d-th date, when a search succeeded
ItemsOf(d) ==
    IF \E k \in SearchesOf(d) : calls[k].resp.status = 200
    THEN calls[CHOOSE k \in SearchesOf(d) : calls[k].resp.status = 200].resp.issues
    ELSE <<>>

\* every item returned for the d-th date has been submitted
AllSubmitted(d) ==
    /\ ItemsOf(d) # <<>>
    /\ Cardinality(PostsOf(d)) = Len(ItemsOf(d))

\* C1: in automatic mode, the timeSpentSeconds of the n submissions made for a
\* date sum to exactly the requested number of seconds.
C1_SumIsTotal ==
    \A d \in 1..Len(dates_to_log) :
        AutoMode /\ AllSubmitted(d) => SumSeconds(PostsOf(d)) = time_seconds

\* the submission of the item at 0-based position i of the d-th date
PostOf(d, i) == CHOOSE k \in PostsOf(d) : calls[k].item = i

\* C2: in automatic mode with n items, the first (total mod n) items in list
\* order are submitted with (total div n) + 1 seconds and every other item
\* with (total div n) seconds, total being the requested number of seconds.
C2_FirstItemsGetExtra ==
    \A d \in 1..Len(dates_to_log) :
        AutoMode /\ AllSubmitted(d) =>
            LET n == Len(ItemsOf(d)) IN
            \A i \in 0..(n - 1) :
                LET p == calls[PostOf(d, i)].payload IN
                /\ p.issueKey = ItemsOf(d)[i + 1].key
                /\ p.timeSpentSeconds =
                     IF i < time_seconds % n
                     THEN (time_seconds \div n) + 1
                     ELSE time_seconds \div n

\* a submission the remote side answered with a status outside 200..299
NonSuccessPost(k) ==
    /\ calls[k].op = "post"
    /\ calls[k].resp.outcome = "http"
    /\ calls[k].resp.status \notin 200..299

\* the part of the collected lines that describes the submission at position k
\* of the history, once its date's line has been appended
ReportedPart(k) ==
    LET r == results[calls[k].iter].result
    IN  IF r.kind = "joined" THEN r.parts[calls[k].item + 1] ELSE r

\* C3: whenever a worklog POST returns a non-2xx response, the part of the
\* report that describes that submission states the failure with the raw
\* response body, in manual and in automatic mode; it is never reported as
\* logged time.
C3_FailureReported ==
    \A k \in 1..Len(calls) :
        NonSuccessPost(k) /\ calls[k].iter <= Len(results) =>
            /\ ReportedPart(k).kind = "Failed for"
            /\ ReportedPart(k).body = calls[k].resp.text

\* no remote call of the run ended in an exception
NoFault == \A k \in 1..Len(calls) : calls[k].resp.outcome = "http"

\* the identity lookup was issued first and succeeded
IdentityFetched ==
    /\ calls # <<>>
    /\ calls[1].op = "myself"
    /\ calls[1].resp.outcome = "http"
    /\ calls[1].resp.status = 200

\* the d-th date was attempted in full: its lookup or search was issued, and
\* every submission the answer calls for was issued
Attempted(d) ==
    IF AutoMode
    THEN /\ SearchesOf(d) # {}
         /\ \A i \in 0..(Len(ItemsOf(d)) - 1) :
                \E k \in PostsOf(d) : calls[k].item = i
    ELSE \E k \in 1..Len(calls) :
            /\ calls[k].op = "issue"
            /\ calls[k].iter = d
            /\ (calls[k].resp.status = 200 => PostsOf(d) # {})

\* C4: in a run with duration > 0 whose date resolution and identity fetch
\* succeed and whose remote calls all return an HTTP response, no business
\* failure stops the run: when it ends every resolved date has been attempted
\* in full and the report holds one line per date.
C4_BusinessFailureNeverStops ==
    (pc = "done" /\ time_seconds > 0 /\ IdentityFetched /\ NoFault) =>
        /\ ret.kind = "report"
        /\ Len(ret.lines) = Len(dates_to_log)
        /\ \A d \in 1..Len(dates_to_log) : Attempted(d)

\* a run that ended after a failed submission of a first item was followed by
\* the submission of the next item and by the calls of a later date
C4_Witness ==
    /\ pc = "done"
    /\ ret.kind = "report"
    /\ \E k \in 1..Len(calls) :
          /\ NonSuccessPost(k)
          /\ calls[k].item = 0
          /\ \E l \in PostsOf(calls[k].iter) : calls[l].item = 1 /\ l > k
          /\ \E m \in 1..Len(calls) : calls[m].iter > calls[k].iter

\* <<y, m, d>> before <<y, m, d>>
DateBefore(a, b) ==
    \/ a[1] < b[1]
    \/ a[1] = b[1] /\ a[2] < b[2]
    \/ a[1] = b[1] /\ a[2] = b[2] /\ a[3] < b[3]

\* C5: the submissions of a run are issued one after another, dates in the
\* order of the resolved sequence (ascending for a week range) and, within a
\* date, items in the order of the fetched list, none skipped.
C5_SubmissionOrder ==
    /\ \A k, l \in AllPosts :
          k < l =>
              \/ calls[k].iter < calls[l].iter
              \/ calls[k].iter = calls[l].iter /\ calls[k].item < calls[l].item
    /\ \A k \in 1..Len(calls) :
          calls[k].op = "post" =>
              /\ calls[k].payload.startDate = dates_to_log[calls[k].iter]
              /\ AutoMode =>
                    /\ calls[k].payload.issueKey =
                          ItemsOf(calls[k].iter)[calls[k].item + 1].key
                    /\ \A i \in 0..(calls[k].item - 1) :
                          \E l \in 1..(k - 1) :
                              /\ calls[l].op = "post"
                              /\ calls[l].iter = calls[k].iter
                              /\ calls[l].item = i
    /\ Len(dates_to_log) = 5 =>
          \A i, j \in 1..5 : i < j => DateBefore(dates_to_log[i], dates_to_log[j])

\* two items submitted on each of two dates of a week
C5_Witness ==
    /\ Len(dates_to_log) = 5
    /\ \E d \in 1..4 :
          /\ Cardinality(PostsOf(d)) >= 2
          /\ Cardinality(PostsOf(d + 1)) >= 2

\* C6: the identity lookup is issued at most once in a run, after the dates
\* have been resolved and before any other remote call, and the account it
\* returned is the author of every submission.
C6_IdentityOnce ==
    /\ Cardinality({k \in 1..Len(calls) : calls[k].op = "myself"}) <= 1
    /\ calls # <<>> => calls[1].op = "myself" /\ dates_to_log # <<>>
    /\ \A k \in 1..Len(calls) :
          calls[k].op = "post" =>
              /\ IdentityFetched
              /\ calls[k].payload.authorAccountId = calls[1].resp.accountId

\* submissions on two dates, authored by the second account
C6_Witness ==
    /\ IdentityFetched
    /\ calls[1].resp.accountId = "acc-2"
    /\ \E k, l \in 1..Len(calls) :
          /\ calls[k].op = "post"
          /\ calls[l].op = "post"
          /\ calls[k].iter < calls[l].iter

\* the four week ranges the date resolver is specified to recognise
NamedWeeks == {S_this_week, S_full_week, S_next_week, S_last_week}

\* the date expression the request is resolved from
HonouredExpression == IF date_range # <<>> THEN date_range ELSE work_date

\* the request's date expression is no week range and does not parse
CannotResolve ==
    /\ HonouredExpression # <<>>
    /\ DateParser(HonouredExpression, today) = {<<>>}
    /\ date_range # <<>> => Normalize(date_range) \notin NamedWeeks

\* C7: when the date expression cannot be resolved the run ends with the
\* single message that reports the parse error, and no remote call is issued.
C7_ParseErrorIsFatal ==
    /\ (CannotResolve /\ pc # "resolve") =>
          /\ pc = "done"
          /\ ret = ExceptionOccurred("Could not parse",
                      IF date_range # <<>> THEN "date_range" ELSE "work_date")
          /\ calls = <<>>
    /\ ret.text = "Could not parse" => calls = <<>> /\ pc = "done"

C7_Witness ==
    /\ CannotResolve
    /\ pc = "done"
    /\ ret.text = "Could not parse"

\* C8: when the identity lookup returns a non-success response the run ends
\* with the single message that reports it, and no work-item lookup, open-item
\* search or submission is issued.
C8_AuthErrorIsFatal ==
    (calls # <<>> /\ calls[1].op = "myself"
       /\ calls[1].resp.outcome = "http" /\ calls[1].resp.status # 200) =>
        /\ pc = "done"
        /\ Len(calls) = 1
        /\ ret = ExceptionOccurred("Failed to fetch account info",
                                   calls[1].resp.text)

C8_Witness ==
    /\ pc = "done"
    /\ Len(calls) = 1
    /\ calls[1].resp.status = 401
    /\ Len(dates_to_log) = 5

\* Monday to Friday of the week of now
CurrentWeek(now) == [i \in 1..5 |-> Strftime(now - Weekday(now) + (i - 1))]

\* C9: for every today, date_range "full week" resolves to the 5 dates that
\* "this week" resolves to, Monday to Friday of the current week.
C9_FullWeekIsThisWeek ==
    (pc # "resolve" /\ Normalize(date_range) = S_full_week) =>
        dates_to_log = CurrentWeek(today)

\* C10: a non-empty date_range whose normalized form is none of the four week
\* ranges resolves to exactly one date or fails; it never resolves to the 5
\* dates of a week.
C10_OtherValuesGiveOneDate ==
    (pc # "resolve" /\ date_range # <<>>
       /\ Normalize(date_range) \notin NamedWeeks) =>
        \/ Len(dates_to_log) = 1
        \/ pc = "done" /\ ret.text = "Could not parse"

\* positions in the history of the issue lookups of the d-th date
IssueLookupsOf(d) == {k \in 1..Len(calls) : calls[k].op = "issue" /\ calls[k].iter = d}

\* C11: in manual mode, a date whose issue lookup succeeds gets exactly one
\* worklog submission, carrying the whole requested time_seconds, the
\* requested work_start and that date; a date whose lookup returns another
\* status gets no submission, and its line, and no other line, reports the
\* failed lookup.
C11_ManualOneSubmission ==
    ~AutoMode =>
        \A d \in 1..Len(dates_to_log) :
            /\ Cardinality(PostsOf(d)) <= 1
            /\ \A p \in PostsOf(d) :
                  /\ calls[p].payload.timeSpentSeconds = time_seconds
                  /\ calls[p].payload.startTime = work_start
                  /\ calls[p].payload.startDate = dates_to_log[d]
                  /\ calls[p].payload.issueKey = issue_key
                  /\ \E k \in IssueLookupsOf(d) :
                        /\ k < p
                        /\ calls[k].resp.outcome = "http"
                        /\ calls[k].resp.status = 200
                        /\ calls[p].payload.issueId = calls[k].resp.id
            /\ \A k \in IssueLookupsOf(d) :
                  calls[k].resp.outcome = "http" =>
                      IF calls[k].resp.status = 200
                      THEN pc # "post_manual" => Cardinality(PostsOf(d)) = 1
                      ELSE /\ PostsOf(d) = {}
                           /\ d <= Len(results)
                           /\ results[d].result.kind = "Failed to fetch issue"
                           /\ results[d].result.key = issue_key
                           /\ results[d].result.body = calls[k].resp.text
            /\ (d <= Len(results)
                  /\ results[d].result.kind = "Failed to fetch issue") =>
                     \E k \in IssueLookupsOf(d) :
                        /\ calls[k].resp.outcome = "http"
                        /\ calls[k].resp.status # 200

\* a manual run over a week ended with one date's lookup refused and the
\* other four dates submitted
C11_Witness ==
    /\ ~AutoMode
    /\ pc = "done"
    /\ ret.kind = "report"
    /\ Len(dates_to_log) = 5
    /\ \E d \in 1..5 :
          /\ results[d].result.kind = "Failed to fetch issue"
          /\ PostsOf(d) = {}
          /\ \A e \in (1..5) \ {d} : Cardinality(PostsOf(e)) = 1

\* the search at position k of the history answered 200 with no open item
EmptySearch(k) ==
    /\ calls[k].op = "search"
    /\ calls[k].resp.outcome = "http"
    /\ calls[k].resp.status = 200
    /\ calls[k].resp.issues = <<>>

\* C12: in automatic mode, when the search of a date succeeds with an empty
\* list, no worklog is submitted for that date, the date's line says that no
\* in-progress issues were found, and the run goes on with the next date.
C12_EmptySearchSkipsDate ==
    AutoMode =>
        \A k \in 1..Len(calls) :
            EmptySearch(k) =>
                LET d == calls[k].iter IN
                /\ PostsOf(d) = {}
                /\ d <= Len(results)
                /\ results[d].date = dates_to_log[d]
                /\ results[d].result.kind = "No in-progress issues found."
                /\ IF k = Len(calls)
                   THEN \/ pc = "loop" /\ date_idx = d + 1
                        \/ /\ pc = "done"
                           /\ ret.kind = "report"
                           /\ d = Len(dates_to_log)
                   ELSE /\ calls[k + 1].op = "search"
                        /\ calls[k + 1].iter = d + 1

\* a date without open items lies between two dates with submissions
C12_Witness ==
    /\ AutoMode
    /\ \E k \in 1..Len(calls) :
          /\ EmptySearch(k)
          /\ PostsOf(calls[k].iter - 1) # {}
          /\ PostsOf(calls[k].iter + 1) # {}

\* the texts _run can return
ReturnedTexts ==
    {"report", "Exception occurred",
     "total_hours is required in auto_from_jira mode."}

\* C13: whatever the remote services answer, _run ends by returning a text:
\* a run that has not returned can always take its next step (resolve_dates
\* always has an outcome, and every later position enables a step), a run
\* that has ended has returned a report or a message, and no exception
\* leaves _run.
C13_AlwaysReturnsText ==
    IF pc = "done"
    THEN ret.kind \in ReturnedTexts
    ELSE /\ ret = Running
         /\ IF pc = "resolve"
            THEN resolve_dates(work_date, date_range, today) # {}
            ELSE ENABLED Next

\* a run ended by a fault in the middle of a date, after a submission of that
\* date had been accepted
C13_Witness ==
    /\ pc = "done"
    /\ ret.kind = "Exception occurred"
    /\ ret.text = "fault"
    /\ calls[Len(calls)].op = "post"
    /\ calls[Len(calls)].item > 0
    /\ calls[Len(calls) - 1].resp.status = 201

\* C14: in automatic mode the start time submitted for the item at 0-based
\* position i of the n items of a date is work_start + i * (total div n)
\* seconds, total being the requested number of seconds: the offset is a
\* multiple of the base share, not the sum of the durations allocated to the
\* items before it.
C14_StartOffsetByBaseShare ==
    AutoMode =>
        \A k \in 1..Len(calls) :
            calls[k].op = "post" =>
                LET n == Len(ItemsOf(calls[k].iter))
                    i == calls[k].item
                IN  calls[k].payload.startTime =
                        StrftimeHMS(ToSeconds(work_start)
                                      + i * (time_seconds \div n))

\* C15: on every weekday of today, date_range "next week" resolves to
\* exactly 5 consecutive dates in ascending order, Monday to Friday of the
\* calendar week after the week of today (day 1 of the proleptic calendar is
\* a Monday, so the Mondays are the ordinals that leave 1 modulo 7).
C15_NextWeekIsFollowingWeek ==
    (pc # "resolve" /\ Normalize(date_range) = S_next_week) =>
        /\ pc = "get_account_id"
        /\ Len(dates_to_log) = 5
        /\ \E monday \in (today + 1)..(today + 7) :
              /\ monday % 7 = 1
              /\ \A i \in 1..5 : dates_to_log[i] = Strftime(monday + (i - 1))
        /\ \A i \in 1..4 : DateBefore(dates_to_log[i], dates_to_log[i + 1])

\* "next week" resolved on a Sunday and on a Monday, in a padded spelling
\* with an underscore, into a week that starts in another year than today
C15_Witness ==
    /\ pc = "get_account_id"
    /\ date_range = S_next_week_padded
    /\ today % 7 \in {0, 1}
    /\ Len(dates_to_log) = 5
    /\ dates_to_log[1][1] # Strftime(today)[1]

\* the state after resolve_dates is the outcome out
ResolvedAs(out) ==
    IF out.kind = "dates"
    THEN pc = "get_account_id" /\ dates_to_log = out.dates
    ELSE pc = "done" /\ ret = ExceptionOccurred("Could not parse", out.what)

\* C16: resolve_dates honours one date source: when work_date and date_range
\* are both given, the result is the one date_range gives without any
\* work_date, and work_date is never parsed (no failure is ever reported for
\* it); when neither is given the result is the single date today.
C16_OneDateSource ==
    pc # "resolve" =>
        /\ (date_range # <<>> /\ work_date # <<>>) =>
              /\ \E out \in resolve_dates(NoText, date_range, today) :
                    ResolvedAs(out)
              /\ ret.body # "work_date"
        /\ (date_range = <<>> /\ work_date = <<>>) =>
              ResolvedAs([kind |-> "dates", dates |-> <<Strftime(today)>>])

\* a week range was resolved although the work_date given with it does not
\* parse
C16_Witness ==
    /\ work_date = S_zzzqqq
    /\ date_range = S_last_week
    /\ pc = "get_account_id"
    /\ Len(dates_to_log) = 5

\* end-to-end scenario A has run to its end: 27000 s, automatic mode, "this
\* week", start 09:00:00, 2 open items on every date, every call succeeded
ScenarioA ==
    /\ pc = "done"
    /\ ret.kind = "report"
    /\ time_seconds = 27000
    /\ AutoMode
    /\ Normalize(date_range) = S_this_week
    /\ work_start = <<9, 0, 0>>
    /\ NoFault
    /\ failures = 0
    /\ \A d \in 1..Len(dates_to_log) : Len(ItemsOf(d)) = 2

\* scenario A with the second item of each date submitted at the time
\* second_start
ScenarioAOutcome(second_start) ==
    /\ Len(dates_to_log) = 5
    /\ Cardinality(AllPosts) = 10
    /\ \A k \in AllPosts : calls[k].payload.timeSpentSeconds = 13500
    /\ \A d \in 1..5 :
          /\ Cardinality(PostsOf(d)) = 2
          /\ \A k \in PostsOf(d) :
                /\ calls[k].payload.startDate = CurrentWeek(today)[d]
                /\ calls[k].payload.startTime =
                      IF calls[k].item = 0 THEN <<9, 0, 0>> ELSE second_start

\* C17 as stated: in scenario A the run makes 10 submissions of 13500 s, the
\* first item of each of the 5 dates at 09:00:00 and the second at 11:45:00.
C17_ScenarioA_AsStated == ScenarioA => ScenarioAOutcome(<<11, 45, 0>>)

\* C17: in scenario A the run makes 10 submissions of 13500 s each, and on
\* each of the 5 dates of the current week the first item is submitted with
\* start time 09:00:00 and the second with start time 12:45:00, which is
\* 09:00:00 plus 13500 s.
C17_ScenarioA == ScenarioA => ScenarioAOutcome(<<12, 45, 0>>)

\* scenario A has run to its end and its report has five lines
C17_Witness == ScenarioA /\ Len(ret.lines) = 5

\* the submission at position k of the history was accepted
Accepted(k) ==
    /\ calls[k].op = "post"
    /\ calls[k].resp.outcome = "http"
    /\ calls[k].resp.status \in {200, 201}

\* the returned report has the line of the date of the submission at k
LineReturnedFor(k) ==
    /\ calls[k].iter <= Len(ret.lines)
    /\ ret.lines[calls[k].iter].date = calls[k].payload.startDate
    /\ ret.lines[calls[k].iter].result.kind \in {"Logged", "joined"}

\* C18 as stated: whenever a worklog submission of the run has been
\* accepted, the text the run returns contains the line of that submission's
\* date, also when a later remote call ends in a fault that ends the run.
C18_PartialSuccessVisible_AsStated ==
    pc = "done" => \A k \in AllPosts : Accepted(k) => LineReturnedFor(k)

\* C18: whenever a worklog submission of the run has been accepted and the
\* run ends by returning its report, the report contains the line of that
\* submission's date; a run in which a remote call ends in a fault returns
\* the single exception message and none of the lines collected before it.
C18_PartialSuccessVisible ==
    /\ (pc = "done" /\ ret.kind = "report") =>
          \A k \in AllPosts : Accepted(k) => LineReturnedFor(k)
    /\ (pc = "done" /\ ~NoFault) =>
          /\ ret.kind = "Exception occurred"
          /\ ret.lines = <<>>

\* a report returned after an accepted submission on one date and a refused
\* lookup, search or submission on a later date
C18_Witness ==
    /\ pc = "done"
    /\ ret.kind = "report"
    /\ failures > 0
    /\ \E k \in AllPosts :
          /\ Accepted(k)
          /\ calls[k].iter < Len(dates_to_log)
          /\ \E l \in 1..Len(calls) :
                /\ calls[l].iter > calls[k].iter
                /\ calls[l].resp.status >= 400

\* positions in the history of the identity lookups
IdentityLookups == {k \in 1..Len(calls) : calls[k].op = "myself"}

\* C19: no remote call is retried: a run issues at most one submission per
\* pair of date and work item and at most one issue lookup or open-item
\* search per date, whatever the responses, and the identity lookup once.
C19_NoRetry ==
    /\ Cardinality(IdentityLookups) <= 1
    /\ \A d \in 1..Len(dates_to_log) :
          /\ Cardinality(IssueLookupsOf(d)) + Cardinality(SearchesOf(d)) <= 1
          /\ \A k, l \in PostsOf(d) :
                k # l =>
                    /\ calls[k].item # calls[l].item
                    /\ calls[k].payload.issueKey # calls[l].payload.issueKey
    /\ \A k \in AllPosts :
          calls[k].payload.startDate = dates_to_log[calls[k].iter]

\* a manual run over a week went through all its dates, one lookup each,
\* after the lookup of its second date had been refused
C19_Witness ==
    /\ ~AutoMode
    /\ pc = "done"
    /\ ret.kind = "report"
    /\ Len(dates_to_log) = 5
    /\ \E k \in 1..Len(calls) :
          /\ calls[k].op = "issue"
          /\ calls[k].resp.status = 404
          /\ calls[k].iter = 2
          /\ Len(calls) > k
    /\ \A d \in 1..5 : Cardinality(IssueLookupsOf(d)) = 1

\* the search at position k of the history was answered with another status
\* than 200
RefusedSearch(k) ==
    /\ calls[k].op = "search"
    /\ calls[k].resp.outcome = "http"
    /\ calls[k].resp.status # 200

\* C20: in automatic mode, when the open-item search of a date is answered
\* with a non-200 status, nothing is submitted for that date, the date's line
\* is the "Failed to fetch in-progress issues" message with the response
\* body, and the run goes on with a new search for the next date: no item
\* found for an earlier date is submitted for this one.
C20_RefusedSearchSkipsDate ==
    AutoMode =>
        \A k \in 1..Len(calls) :
            RefusedSearch(k) =>
                LET d == calls[k].iter IN
                /\ PostsOf(d) = {}
                /\ d <= Len(results)
                /\ results[d].date = dates_to_log[d]
                /\ results[d].result.kind = "Failed to fetch in-progress issues"
                /\ results[d].result.body = calls[k].resp.text
                /\ IF k = Len(calls)
                   THEN \/ pc = "loop" /\ date_idx = d + 1
                        \/ /\ pc = "done"
                           /\ ret.kind = "report"
                           /\ d = Len(dates_to_log)
                   ELSE /\ calls[k + 1].op = "search"
                        /\ calls[k + 1].iter = d + 1

\* the search of a date was refused after two items had been submitted for
\* the date before, and two items were submitted for the date after
C20_Witness ==
    /\ AutoMode
    /\ \E k \in 1..Len(calls) :
          /\ RefusedSearch(k)
          /\ Cardinality(PostsOf(calls[k].iter - 1)) = 2
          /\ Cardinality(PostsOf(calls[k].iter + 1)) = 2

====
